---- MODULE Spec2Model ----
(***************************************************************************)
(* rehypeSpotlight: the rehype plugin that turns "// spotlight-start" and  *)
(* "// spotlight-end" comments of a highlighted code block into the        *)
(* classes has-spotlights / spotlight / dim.                               *)
(*                                                                         *)
(* A hast node is a record.  Strings are sequences of one-character        *)
(* strings, so that includes, trim and replace are computed character by   *)
(* character.  A JavaScript object keeps its identity while it is mutated: *)
(* the field id carries that identity (it is never read by the plugin).    *)
(***************************************************************************)
EXTENDS Integers, Sequences, FiniteSets, TLC

VARIABLES tree, prev, calls

vars == <<tree, prev, calls>>

\* ---------------------------------------------------------------- bounds
MaxLines == 5
MaxTokens == 2
MaxCtx == 1
MaxCalls == 2

\* --------------------------------------------------------------- strings
StartMarker == <<"/","/"," ","s","p","o","t","l","i","g","h","t","-","s","t","a","r","t">>
EndMarker == <<"/","/"," ","s","p","o","t","l","i","g","h","t","-","e","n","d">>
StartWord == <<"s","p","o","t","l","i","g","h","t","-","s","t","a","r","t">>
NBSP == <<"nbsp">>
Newline == <<"\n">>

\* the characters String.prototype.trim removes and the regex class \s matches
IsSpace(c) == c \in {" ", "\n", "\t", "nbsp"}

\* String.prototype.includes
Includes(s, m) ==
    \E i \in 0..(Len(s) - Len(m)) : SubSeq(s, i + 1, i + Len(m)) = m

\* String.prototype.trim
Trim(s) ==
    LET keep == {i \in 1..Len(s) : ~IsSpace(s[i])}
    IN IF keep = {} THEN <<>>
       ELSE LET lo == CHOOSE i \in keep : \A j \in keep : i <= j
                hi == CHOOSE i \in keep : \A j \in keep : i >= j
            IN SubSeq(s, lo, hi)

\* variant: the whitespace on both sides of the match is removed (/\s*<m>\s*/)
Replace_trimsBoth(s, m) ==
    LET hits == {i \in 1..(Len(s) - Len(m) + 1) : SubSeq(s, i, i + Len(m) - 1) = m}
    IN IF hits = {} THEN s
       ELSE LET i == CHOOSE h \in hits : \A g \in hits : h <= g
                after == i + Len(m)
                stops == {j \in after..Len(s) : ~IsSpace(s[j])}
                j == IF stops = {} THEN Len(s) + 1
                     ELSE CHOOSE a \in stops : \A b \in stops : a <= b
                starts == {a \in 1..(i - 1) : ~IsSpace(s[a])}
                h0 == IF starts = {} THEN 0
                      ELSE CHOOSE a \in starts : \A b \in starts : b <= a
            IN SubSeq(s, 1, h0) \o SubSeq(s, j, Len(s))

\* s.replace(/<m>\s*/, ""): the regex has no g flag, so only the leftmost
\* match is removed, together with the whitespace run that follows it
Replace(s, m) ==
    LET hits == {i \in 1..(Len(s) - Len(m) + 1) : SubSeq(s, i, i + Len(m) - 1) = m}
    IN IF hits = {} THEN s
       ELSE LET i == CHOOSE h \in hits : \A g \in hits : h <= g
                after == i + Len(m)
                stops == {j \in after..Len(s) : ~IsSpace(s[j])}
                j == IF stops = {} THEN Len(s) + 1
                     ELSE CHOOSE a \in stops : \A b \in stops : a <= b
            IN SubSeq(s, 1, i - 1) \o SubSeq(s, j, Len(s))

\* ----------------------------------------------------------------- nodes
\* hasClassName = FALSE is properties.className === undefined
Text(v, i) ==
    [type |-> "text", tagName |-> "", hasClassName |-> FALSE, className |-> <<>>,
     children |-> <<>>, value |-> v, shouldRemove |-> FALSE, id |-> i]

Element(tag, hasCls, cls, kids, i) ==
    [type |-> "element", tagName |-> tag, hasClassName |-> hasCls, className |-> cls,
     children |-> kids, value |-> <<>>, shouldRemove |-> FALSE, id |-> i]

Root(kids) ==
    [type |-> "root", tagName |-> "", hasClassName |-> FALSE, className |-> <<>>,
     children |-> kids, value |-> <<>>, shouldRemove |-> FALSE, id |-> 0]

\* Array.prototype.includes on a class list
HasToken(cls, t) == \E i \in 1..Len(cls) : cls[i] = t

\* the predicate of codeEl.children.filter(...) that selects the line spans
IsLineSpan(n) ==
    /\ n.type = "element"
    /\ n.tagName = "span"
    /\ n.hasClassName
    /\ HasToken(n.className, "line")

RECURSIVE Concat(_)
\* Array.prototype.join("")
Concat(ss) == IF ss = <<>> THEN <<>> ELSE Head(ss) \o Concat(Tail(ss))

RECURSIVE getText(_)
getText(node) ==
    IF Len(node.value) > 0 THEN node.value
    ELSE Concat([i \in 1..Len(node.children) |-> getText(node.children[i])])

RECURSIVE hasMarker_anyDelimiter(_)
\* variant: the words of the marker count without the "// " before them
hasMarker_anyDelimiter(node) ==
    IF Len(node.value) > 0
    THEN Includes(node.value, StartWord) \/ Includes(node.value, EndMarker)
    ELSE \E i \in 1..Len(node.children) : hasMarker_anyDelimiter(node.children[i])

RECURSIVE hasMarker(_)
hasMarker(node) ==
    IF Len(node.value) > 0
    THEN Includes(node.value, StartMarker) \/ Includes(node.value, EndMarker)
    ELSE \E i \in 1..Len(node.children) : hasMarker(node.children[i])

RECURSIVE transformNode_dropsEmpty(_, _)
\* variant: a child that the rewrite leaves without text is dropped
transformNode_dropsEmpty(node, marker) ==
    LET rewritten == [i \in 1..Len(node.children) |->
                         transformNode_dropsEmpty(node.children[i], marker)]
    IN [node EXCEPT
          !.value = IF Len(@) > 0 THEN Replace(@, marker) ELSE @,
          !.children = SelectSeq(rewritten,
                                 LAMBDA c : ~(c.type = "text" /\ c.value = <<>>))]

RECURSIVE transformNode(_, _)
transformNode(node, marker) ==
    [node EXCEPT
       !.value = IF Len(@) > 0 THEN Replace(@, marker) ELSE @,
       !.children = [i \in 1..Len(@) |-> transformNode(@[i], marker)]]

\* ------------------------------------------------- the code element pass
\* A code element is processed with its child objects in kids (the array
\* codeEl.children at the time of the call; an object is named by its place
\* there and is mutated in place) and with the current value of
\* codeEl.children in children, a sequence of places in kids.

\* variant: every span child counts as a line
lineSpans_anySpan(codeEl) ==
    SelectSeq([i \in 1..Len(codeEl.children) |-> i],
              LAMBDA i : /\ codeEl.children[i].type = "element"
                         /\ codeEl.children[i].tagName = "span")

\* codeEl.children.filter(<line span predicate>)
lineSpans(codeEl) ==
    SelectSeq([i \in 1..Len(codeEl.children) |-> i],
              LAMBDA i : IsLineSpan(codeEl.children[i]))

\* Array.prototype.indexOf, 0-based, -1 when the object is not in the array
indexOf(children, p) ==
    IF \E k \in 1..Len(children) : children[k] = p
    THEN (CHOOSE k \in 1..Len(children) :
             children[k] = p /\ \A j \in 1..(k - 1) : children[j] # p) - 1
    ELSE -1

\* node && node.type === "text" && node.value === "\n" for node = children[k]
\* (k is 0-based; children[k] is undefined outside the array)
isNewlineAt(kids, children, k) ==
    /\ k >= 0
    /\ k < Len(children)
    /\ kids[children[k + 1]].type = "text"
    /\ kids[children[k + 1]].value = Newline

\* variant: the kept children are collected back to front
filterRemoved_reversed(kids, children) ==
    LET kept == SelectSeq(children, LAMBDA p : ~kids[p].shouldRemove)
    IN [k \in 1..Len(kept) |-> kept[Len(kept) + 1 - k]]

\* codeEl.children.filter((child) => !child.shouldRemove)
filterRemoved(kids, children) ==
    SelectSeq(children, LAMBDA p : ~kids[p].shouldRemove)

\* variant: the last line is tested with lastText === "" (no trim)
markLastSpan_noTrim(kids, children, spans) ==
    IF spans = <<>> THEN kids
    ELSE LET lastSpan == spans[Len(spans)]
             lastText == getText(kids[lastSpan])
         IN IF lastText = <<>>
            THEN LET lastSpanIndex == indexOf(children, lastSpan)
                     k1 == [kids EXCEPT ![lastSpan].shouldRemove = TRUE]
                 IN IF isNewlineAt(k1, children, lastSpanIndex - 1)
                    THEN [k1 EXCEPT ![children[lastSpanIndex]].shouldRemove = TRUE]
                    ELSE k1
            ELSE kids

\* variant: the newline before the last line is not flagged
markLastSpan_keepsNewline(kids, children, spans) ==
    IF spans = <<>> THEN kids
    ELSE LET lastSpan == spans[Len(spans)]
             lastText == getText(kids[lastSpan])
         IN IF Trim(lastText) = <<>>
            THEN [kids EXCEPT ![lastSpan].shouldRemove = TRUE]
            ELSE kids

\* the trailing blank line: flags lastSpan and the newline before it
markLastSpan(kids, children, spans) ==
    IF spans = <<>> THEN kids
    ELSE LET lastSpan == spans[Len(spans)]
             lastText == getText(kids[lastSpan])
         IN IF Trim(lastText) = <<>>
            THEN LET lastSpanIndex == indexOf(children, lastSpan)
                     k1 == [kids EXCEPT ![lastSpan].shouldRemove = TRUE]
                 IN IF isNewlineAt(k1, children, lastSpanIndex - 1)
                    THEN [k1 EXCEPT ![children[lastSpanIndex]].shouldRemove = TRUE]
                    ELSE k1
            ELSE kids

\* variant: lineSpans.every(hasMarker)
hasSpotlights_every(kids, spans) ==
    \A i \in 1..Len(spans) : hasMarker(kids[spans[i]])

\* lineSpans.some(hasMarker)
hasSpotlights(kids, spans) ==
    \E i \in 1..Len(spans) : hasMarker(kids[spans[i]])

\* text.trim() === "// spotlight-start" || text.trim() === "// spotlight-end"
isMarkerOnly(text) == Trim(text) = StartMarker \/ Trim(text) = EndMarker

\* a marker-only line: flags the span and the newline after it
markSpan(kids, children, p) ==
    LET k1 == [kids EXCEPT ![p].shouldRemove = TRUE]
        next == indexOf(children, p) + 1
    IN IF isNewlineAt(k1, children, next)
       THEN [k1 EXCEPT ![children[next + 1]].shouldRemove = TRUE]
       ELSE k1

\* variant: the class list is overwritten, the old tokens are not spread
addClass_overwrites(span, token) == [span EXCEPT !.className = <<token>>]

\* span.properties.className = [...span.properties.className, token]
addClass(span, token) == [span EXCEPT !.className = Append(@, token)]

\* variant: a blank spotlighted line keeps its children (no placeholder)
placeholder_none(span, text) == span

\* variant: every spotlighted line gets the placeholder
placeholder_always(span, text) == [span EXCEPT !.children = <<Text(NBSP, 0)>>]

\* if (text.trim() === "") span.children = [{ type: "text", value: " " }]
placeholder(span, text) ==
    IF Trim(text) = <<>> THEN [span EXCEPT !.children = <<Text(NBSP, 0)>>] ELSE span

\* variant: a start marker flips the state instead of setting it
lineCallback_flips(st, children, p) ==
    LET span == st.kids[p]
        text == getText(span)
    IN IF isMarkerOnly(text)
       THEN [kids |-> markSpan(st.kids, children, p),
             isSpotlighting |-> IF Includes(text, StartWord)
                                THEN ~st.isSpotlighting ELSE FALSE]
       ELSE IF Includes(text, StartMarker)
       THEN [kids |-> [st.kids EXCEPT ![p] = transformNode(span, StartMarker)],
             isSpotlighting |-> ~st.isSpotlighting]
       ELSE IF Includes(text, EndMarker)
       THEN [kids |-> [st.kids EXCEPT ![p] = transformNode(span, EndMarker)],
             isSpotlighting |-> FALSE]
       ELSE IF st.isSpotlighting
       THEN [kids |-> [st.kids EXCEPT ![p] = placeholder(addClass(span, "spotlight"), text)],
             isSpotlighting |-> TRUE]
       ELSE [kids |-> [st.kids EXCEPT ![p] = addClass(span, "dim")],
             isSpotlighting |-> FALSE]

\* variant: a line with an inline marker is classified like a plain line
lineCallback_classifiesInline(st, children, p) ==
    LET span == st.kids[p]
        text == getText(span)
        classified(sp) == IF st.isSpotlighting THEN addClass(sp, "spotlight")
                          ELSE addClass(sp, "dim")
    IN IF isMarkerOnly(text)
       THEN [kids |-> markSpan(st.kids, children, p),
             isSpotlighting |-> Includes(text, StartWord)]
       ELSE IF Includes(text, StartMarker)
       THEN [kids |-> [st.kids EXCEPT ![p] = classified(transformNode(span, StartMarker))],
             isSpotlighting |-> TRUE]
       ELSE IF Includes(text, EndMarker)
       THEN [kids |-> [st.kids EXCEPT ![p] = classified(transformNode(span, EndMarker))],
             isSpotlighting |-> FALSE]
       ELSE IF st.isSpotlighting
       THEN [kids |-> [st.kids EXCEPT ![p] = placeholder(addClass(span, "spotlight"), text)],
             isSpotlighting |-> TRUE]
       ELSE [kids |-> [st.kids EXCEPT ![p] = addClass(span, "dim")],
             isSpotlighting |-> FALSE]

\* variant: a blank line outside a spotlight region is flagged for removal
lineCallback_dropsBlank(st, children, p) ==
    LET span == st.kids[p]
        text == getText(span)
    IN IF isMarkerOnly(text)
       THEN [kids |-> markSpan(st.kids, children, p),
             isSpotlighting |-> Includes(text, StartWord)]
       ELSE IF Includes(text, StartMarker)
       THEN [kids |-> [st.kids EXCEPT ![p] = transformNode(span, StartMarker)],
             isSpotlighting |-> TRUE]
       ELSE IF Includes(text, EndMarker)
       THEN [kids |-> [st.kids EXCEPT ![p] = transformNode(span, EndMarker)],
             isSpotlighting |-> FALSE]
       ELSE IF st.isSpotlighting
       THEN [kids |-> [st.kids EXCEPT ![p] = placeholder(addClass(span, "spotlight"), text)],
             isSpotlighting |-> TRUE]
       ELSE [kids |-> [st.kids EXCEPT ![p] =
                          IF Trim(text) = <<>>
                          THEN [addClass(span, "dim") EXCEPT !.shouldRemove = TRUE]
                          ELSE addClass(span, "dim")],
             isSpotlighting |-> FALSE]

\* one call of the lineSpans.forEach callback, for the span at place p;
\* st = [kids, isSpotlighting], children is codeEl.children during the loop
lineCallback(st, children, p) ==
    LET span == st.kids[p]
        text == getText(span)
    IN IF isMarkerOnly(text)
       THEN [kids |-> markSpan(st.kids, children, p),
             isSpotlighting |-> Includes(text, StartWord)]
       ELSE IF Includes(text, StartMarker)
       THEN [kids |-> [st.kids EXCEPT ![p] = transformNode(span, StartMarker)],
             isSpotlighting |-> TRUE]
       ELSE IF Includes(text, EndMarker)
       THEN [kids |-> [st.kids EXCEPT ![p] = transformNode(span, EndMarker)],
             isSpotlighting |-> FALSE]
       ELSE IF st.isSpotlighting
       THEN [kids |-> [st.kids EXCEPT ![p] = placeholder(addClass(span, "spotlight"), text)],
             isSpotlighting |-> TRUE]
       ELSE [kids |-> [st.kids EXCEPT ![p] = addClass(span, "dim")],
             isSpotlighting |-> FALSE]

RECURSIVE forEach(_, _, _, _)
\* the state after the callback ran on the first n line spans
forEach(st, children, spans, n) ==
    IF n = 0 THEN st
    ELSE lineCallback(forEach(st, children, spans, n - 1), children, spans[n])

\* codeEl.children after the trailing blank line is filtered out, as [kids,
\* children]
afterCleanup(codeEl) ==
    LET kids0 == codeEl.children
        children0 == [i \in 1..Len(kids0) |-> i]
        kids1 == markLastSpan(kids0, children0, lineSpans(codeEl))
    IN [kids |-> kids1, children |-> filterRemoved(kids1, children0)]

\* the loop state when the callback has run on the first n line spans
passState(codeEl, n) ==
    LET c == afterCleanup(codeEl)
    IN forEach([kids |-> c.kids, isSpotlighting |-> FALSE],
               c.children, lineSpans(codeEl), n)

\* variant: has-spotlights replaces the class list of the code element
processCode_replacesClass(codeEl) ==
    LET spans == lineSpans(codeEl)
        c == afterCleanup(codeEl)
    IN IF hasSpotlights(c.kids, spans)
       THEN LET st == passState(codeEl, Len(spans))
                children2 == filterRemoved(st.kids, c.children)
            IN [codeEl EXCEPT
                  !.hasClassName = TRUE,
                  !.className = <<"has-spotlights">>,
                  !.children = [k \in 1..Len(children2) |-> st.kids[children2[k]]]]
       ELSE [codeEl EXCEPT
                  !.children = [k \in 1..Len(c.children) |-> c.kids[c.children[k]]]]

\* variant: the filter after the loop is missing
processCode_filtersOnce(codeEl) ==
    LET spans == lineSpans(codeEl)
        c == afterCleanup(codeEl)
    IN IF hasSpotlights(c.kids, spans)
       THEN LET st == passState(codeEl, Len(spans))
            IN [codeEl EXCEPT
                  !.hasClassName = TRUE,
                  !.className = Append(@, "has-spotlights"),
                  !.children = [k \in 1..Len(c.children) |-> st.kids[c.children[k]]]]
       ELSE [codeEl EXCEPT
                  !.children = [k \in 1..Len(c.children) |-> c.kids[c.children[k]]]]

\* the body of `if (codeEl)`
processCode(codeEl) ==
    LET spans == lineSpans(codeEl)
        c == afterCleanup(codeEl)
    IN IF hasSpotlights(c.kids, spans)
       THEN LET st == passState(codeEl, Len(spans))
                children2 == filterRemoved(st.kids, c.children)
            IN [codeEl EXCEPT
                  !.hasClassName = TRUE,
                  !.className = Append(@, "has-spotlights"),
                  !.children = [k \in 1..Len(children2) |-> st.kids[children2[k]]]]
       ELSE [codeEl EXCEPT
                  !.children = [k \in 1..Len(c.children) |-> c.kids[c.children[k]]]]

\* variant: the tagName === "pre" test is missing
visitor_noPreTest(node) ==
    IF node.type = "element"
    THEN LET codes == SelectSeq([i \in 1..Len(node.children) |-> i],
                                LAMBDA i : node.children[i].tagName = "code")
         IN IF codes = <<>> THEN node
            ELSE [node EXCEPT !.children[codes[1]] = processCode(@)]
    ELSE node

\* variant: every code child of the pre element is processed
visitor_allCodes(node) ==
    IF node.type = "element" /\ node.tagName = "pre"
    THEN [node EXCEPT !.children =
            [i \in 1..Len(@) |-> IF @[i].tagName = "code" THEN processCode(@[i]) ELSE @[i]]]
    ELSE node

\* the visitor of visit(tree, "element", ...): only a pre element is touched,
\* and of its children only the first one with tagName code
visitor(node) ==
    IF node.type = "element" /\ node.tagName = "pre"
    THEN LET codes == SelectSeq([i \in 1..Len(node.children) |-> i],
                                LAMBDA i : node.children[i].tagName = "code")
         IN IF codes = <<>> THEN node
            ELSE [node EXCEPT !.children[codes[1]] = processCode(@)]
    ELSE node

RECURSIVE visit(_)
\* unist-util-visit: preorder, the children are read after the visitor ran
visit(node) ==
    LET n1 == visitor(node)
    IN [n1 EXCEPT !.children = [i \in 1..Len(@) |-> visit(@[i])]]

\* variant: isSpotlighting is declared outside the visitor, so a block starts
\* with the value the block before it left
rehypeSpotlight_sharedState(t) ==
    LET processCode_from(codeEl, init) ==
            LET spans == lineSpans(codeEl)
                c == afterCleanup(codeEl)
            IN IF hasSpotlights(c.kids, spans)
               THEN LET st == forEach([kids |-> c.kids, isSpotlighting |-> init],
                                      c.children, spans, Len(spans))
                        children2 == filterRemoved(st.kids, c.children)
                    IN [codeEl EXCEPT
                          !.hasClassName = TRUE,
                          !.className = Append(@, "has-spotlights"),
                          !.children = [k \in 1..Len(children2) |-> st.kids[children2[k]]]]
               ELSE [codeEl EXCEPT
                          !.children = [k \in 1..Len(c.children) |-> c.kids[c.children[k]]]]
        firstCode(n) ==
            LET codes == SelectSeq([k \in 1..Len(n.children) |-> k],
                                   LAMBDA k : n.children[k].tagName = "code")
            IN IF n.type = "element" /\ n.tagName = "pre" /\ codes # <<>>
               THEN codes[1] ELSE 0
        codeOf(j) == t.children[j].children[firstCode(t.children[j])]
        ran(j) == /\ firstCode(t.children[j]) > 0
                  /\ hasSpotlights(afterCleanup(codeOf(j)).kids, lineSpans(codeOf(j)))
        entering(i) ==
            LET earlier == {j \in 1..(i - 1) : ran(j)}
            IN IF earlier = {} THEN FALSE
               ELSE LET j == CHOOSE a \in earlier : \A b \in earlier : b <= a
                    IN passState(codeOf(j), Len(lineSpans(codeOf(j)))).isSpotlighting
    IN [t EXCEPT !.children =
          [i \in 1..Len(t.children) |->
              IF firstCode(t.children[i]) > 0
              THEN [t.children[i] EXCEPT
                      !.children[firstCode(t.children[i])] = processCode_from(@, entering(i))]
              ELSE visit(t.children[i])]]

\* the transformer rehypeSpotlight() returns
rehypeSpotlight(t) == visit(t)

\* ------------------------------------------- the revision src/unnamed/part_000
\* It has neither the trailing blank line cleanup nor the placeholder; the
\* line span filter, hasMarker, getText, the marker-only test and
\* transformNode are the same text as in part_001 and are shared.

\* one call of the lineSpans.forEach callback of part_000
lineCallback_000(st, children, p) ==
    LET span == st.kids[p]
        text == getText(span)
    IN IF isMarkerOnly(text)
       THEN [kids |-> markSpan(st.kids, children, p),
             isSpotlighting |-> Includes(text, StartWord)]
       ELSE IF Includes(text, StartMarker)
       THEN [kids |-> [st.kids EXCEPT ![p] = transformNode(span, StartMarker)],
             isSpotlighting |-> TRUE]
       ELSE IF Includes(text, EndMarker)
       THEN [kids |-> [st.kids EXCEPT ![p] = transformNode(span, EndMarker)],
             isSpotlighting |-> FALSE]
       ELSE IF st.isSpotlighting
       THEN [kids |-> [st.kids EXCEPT ![p] = addClass(span, "spotlight")],
             isSpotlighting |-> TRUE]
       ELSE [kids |-> [st.kids EXCEPT ![p] = addClass(span, "dim")],
             isSpotlighting |-> FALSE]

RECURSIVE forEach_000(_, _, _, _)
forEach_000(st, children, spans, n) ==
    IF n = 0 THEN st
    ELSE lineCallback_000(forEach_000(st, children, spans, n - 1), children, spans[n])

\* variant: the filter on shouldRemove after the loop is missing
processCode_000_noFilter(codeEl) ==
    LET kids == codeEl.children
        children == [i \in 1..Len(kids) |-> i]
        spans == lineSpans(codeEl)
    IN IF hasSpotlights(kids, spans)
       THEN LET st == forEach_000([kids |-> kids, isSpotlighting |-> FALSE],
                                  children, spans, Len(spans))
            IN [codeEl EXCEPT
                  !.hasClassName = TRUE,
                  !.className = Append(@, "has-spotlights"),
                  !.children = st.kids]
       ELSE codeEl

\* the body of `if (codeEl)` in part_000
processCode_000(codeEl) ==
    LET kids == codeEl.children
        children == [i \in 1..Len(kids) |-> i]
        spans == lineSpans(codeEl)
    IN IF hasSpotlights(kids, spans)
       THEN LET st == forEach_000([kids |-> kids, isSpotlighting |-> FALSE],
                                  children, spans, Len(spans))
                children2 == filterRemoved(st.kids, children)
            IN [codeEl EXCEPT
                  !.hasClassName = TRUE,
                  !.className = Append(@, "has-spotlights"),
                  !.children = [k \in 1..Len(children2) |-> st.kids[children2[k]]]]
       ELSE codeEl

visitor_000(node) ==
    IF node.type = "element" /\ node.tagName = "pre"
    THEN LET codes == SelectSeq([i \in 1..Len(node.children) |-> i],
                                LAMBDA i : node.children[i].tagName = "code")
         IN IF codes = <<>> THEN node
            ELSE [node EXCEPT !.children[codes[1]] = processCode_000(@)]
    ELSE node

RECURSIVE visit_000(_)
visit_000(node) ==
    LET n1 == visitor_000(node)
    IN [n1 EXCEPT !.children = [i \in 1..Len(@) |-> visit_000(@[i])]]

rehypeSpotlight_000(t) == visit_000(t)

\* ---------------------------------------------------------------- inputs
\* Trees as the highlighter hands them over: pre > code > span.line, the
\* lines separated by "\n" Text nodes, every token a span around one Text.
CodeText == <<"x", ";">>
IndentedStart == <<" ", " ">> \o StartMarker
IndentedEnd == <<" ", " ">> \o EndMarker

\* the k-th sibling gets identity k
WithIds(nodes) == [i \in 1..Len(nodes) |-> [nodes[i] EXCEPT !.id = i]]

Token(v) == Element("span", FALSE, <<>>, <<Text(v, 1)>>, 0)
Line(kids) == Element("span", TRUE, <<"line">>, WithIds(kids), 0)
\* a line holding one token, or no token at all when the text is empty
LineOf(v) == IF v = <<>> THEN Line(<<>>) ELSE Line(<<Token(v)>>)

\* line, sep, line, sep, ..., line (no separator nodes when sep is empty)
Separated(lines, sep) ==
    IF sep = <<>> THEN lines
    ELSE [k \in 1..(2 * Len(lines) - (IF lines = <<>> THEN 0 ELSE 1)) |->
            IF k % 2 = 1 THEN lines[(k + 1) \div 2] ELSE Text(sep, 0)]

Code(hasCls, cls, kids) == Element("code", hasCls, cls, WithIds(kids), 0)
Pre(kids) == Element("pre", TRUE, <<"astro-code">>, WithIds(kids), 0)
Document(kids) == Root(WithIds(kids))

SeqsUpTo(S, n) == UNION {[1..k -> S] : k \in 0..n}

\* blocks of up to MaxLines one-token lines
SimpleTexts == {CodeText, IndentedStart, IndentedEnd, <<>>}
SimpleBlocks ==
    {Document(<<Pre(<<Code(FALSE, <<>>,
                           Separated([k \in 1..Len(f) |-> LineOf(f[k])], Newline))>>)>>) :
        f \in SeqsUpTo(SimpleTexts, MaxLines)}

\* blocks with one line of up to MaxTokens arbitrary children, after up to
\* MaxCtx start marker lines and before up to MaxCtx one-token lines
RichTokens ==
    {Text(CodeText, 0), Text(<<" ">>, 0), Text(<<>>, 0),
     Text(StartMarker, 0), Text(EndMarker, 0),
     Text(CodeText \o <<" ">> \o StartMarker, 0),
     Text(<<"/","/"," ","s","p","o","t">>, 0),
     Text(<<"l","i","g","h","t","-","s","t","a","r","t">>, 0),
     Token(StartMarker \o <<" ">> \o StartMarker)}
CtxBefore == {StartMarker}
CtxAfter == {CodeText}
Separators == {Newline, <<>>}
RichBlocks ==
    {Document(<<Pre(<<Code(FALSE, <<>>,
        Separated([k \in 1..Len(b) |-> LineOf(b[k])]
                  \o <<Line(r)>>
                  \o [k \in 1..Len(a) |-> LineOf(a[k])], sep))>>)>>) :
        <<b, r, a, sep>> \in SeqsUpTo(CtxBefore, MaxCtx) \X SeqsUpTo(RichTokens, MaxTokens)
                             \X SeqsUpTo(CtxAfter, MaxCtx) \X Separators}

\* trees whose structure is not pre > code > span.line
StartLine == LineOf(StartMarker)
CodeLine == LineOf(CodeText)
OddBlocks ==
    {Document(<<>>),
     Document(<<Pre(<<>>)>>),
     Document(<<Pre(<<Text(Newline, 0)>>)>>),
     Document(<<Pre(<<Element("span", TRUE, <<"line">>, <<Text(StartMarker, 1)>>, 0)>>)>>),
     Document(<<Pre(<<Code(FALSE, <<>>, <<>>)>>)>>),
     Document(<<Pre(<<Code(TRUE, <<>>, <<>>)>>)>>),
     Document(<<Pre(<<Code(TRUE, <<"language-ts">>, <<Text(StartMarker, 0)>>)>>)>>),
     Document(<<Pre(<<Code(FALSE, <<>>, <<Token(StartMarker), Text(Newline, 0)>>)>>)>>),
     Document(<<Pre(<<Code(FALSE, <<>>,
        <<Element("span", TRUE, <<"token">>, <<Text(StartMarker, 1)>>, 0),
          Text(Newline, 0),
          Element("div", TRUE, <<"line">>, <<Text(<<>>, 1)>>, 0)>>)>>)>>),
     Document(<<Pre(<<Code(TRUE, <<"language-ts">>,
        <<StartLine, Text(Newline, 0), CodeLine>>)>>)>>),
     Document(<<Pre(<<Code(FALSE, <<>>,
        <<Text(Newline, 0), StartLine, Token(CodeText), CodeLine, Text(<<" ">>, 0), Line(<<>>)>>)>>)>>),
     Document(<<Code(FALSE, <<>>, <<StartLine, Text(Newline, 0), CodeLine>>)>>),
     Document(<<Pre(<<Code(FALSE, <<>>,
        <<CodeLine, Text(Newline, 0),
          Line(<<Token(CodeText \o <<" ">> \o StartMarker)>>), Text(Newline, 0),
          CodeLine, Text(Newline, 0),
          Line(<<Token(CodeText), Token(<<" ">> \o EndMarker)>>), Text(Newline, 0),
          CodeLine>>)>>)>>),
     Document(<<Pre(<<Text(Newline, 0)>>),
                Pre(<<Code(FALSE, <<>>, <<Text(StartMarker, 0), Token(EndMarker)>>)>>)>>),
     Document(<<Pre(<<Code(FALSE, <<>>,
                  <<StartLine, Text(Newline, 0), CodeLine, Text(Newline, 0), Line(<<>>)>>)>>),
                Pre(<<Code(FALSE, <<>>, <<CodeLine, Text(Newline, 0), Line(<<>>)>>)>>)>>),
     Document(<<Element("div", FALSE, <<>>, <<Text(StartMarker, 1)>>, 0),
                Pre(<<Text(Newline, 0),
                      Code(FALSE, <<>>, <<StartLine, Text(Newline, 0), CodeLine>>),
                      Code(FALSE, <<>>, <<StartLine, Text(Newline, 0), CodeLine>>)>>),
                Pre(<<Code(FALSE, <<>>, <<CodeLine, Text(Newline, 0), Line(<<>>)>>)>>)>>)}

\* more trees of that kind: code below a div, two blocks of which the first
\* leaves its region open, children of code that are no line nodes, and a
\* newline Text after a blank last line that follows a marker-only line, and
\* a whitespace line between an inline start marker and a code line, and the
\* block [A, start, B, C, end, D]
MoreOddBlocks ==
    {Document(<<Element("div", FALSE, <<>>,
                  <<Code(FALSE, <<>>, <<StartLine, Text(Newline, 0), CodeLine>>)>>, 0)>>),
     Document(<<Pre(<<Code(FALSE, <<>>, <<StartLine, Text(Newline, 0), CodeLine>>)>>),
                Pre(<<Code(FALSE, <<>>,
                  <<CodeLine, Text(Newline, 0), StartLine, Text(Newline, 0), CodeLine>>)>>)>>),
     Document(<<Pre(<<Code(FALSE, <<>>,
        <<StartLine, Text(Newline, 0),
          Element("span", FALSE, <<>>, <<>>, 0),
          Element("span", TRUE, <<"token">>, <<Text(StartMarker, 1)>>, 0),
          Text(<<" ">>, 0),
          CodeLine,
          Element("div", TRUE, <<"line">>, <<>>, 0),
          Text(Newline, 0), Text(Newline, 0),
          CodeLine>>)>>)>>),
     Document(<<Pre(<<Code(FALSE, <<>>,
        <<CodeLine, Text(Newline, 0), StartLine, Line(<<>>), Text(Newline, 0)>>)>>)>>),
     Document(<<Pre(<<Code(FALSE, <<>>,
        <<Line(<<Token(CodeText \o <<" ">> \o StartMarker)>>), Text(Newline, 0),
          Line(<<Token(<<" ">>)>>), Text(Newline, 0),
          CodeLine>>)>>)>>),
     Document(<<Pre(<<Code(TRUE, <<"language-ts">>,
        Separated(<<CodeLine, LineOf(IndentedStart), CodeLine, CodeLine,
                    LineOf(IndentedEnd), CodeLine>>, Newline))>>)>>)}

\* blocks whose comments only resemble the markers: another letter case, no
\* space after the slashes, another comment delimiter
\* (VariantTexts), alone in the block or after a start marker line
VariantTexts ==
    {<<"/","/"," ","S","p","o","t","l","i","g","h","t","-","s","t","a","r","t">>,
     <<"/","/">> \o StartWord,
     <<"#"," ">> \o StartWord,
     <<"/","/"," ","s","p","o","t","l","i","g","h","t","-","E","N","D">>}
VariantBlocks ==
    {Document(<<Pre(<<Code(FALSE, <<>>,
        Separated(<<CodeLine, LineOf(v), CodeLine, LineOf(w)>>, Newline))>>)>>) :
        <<v, w>> \in VariantTexts \X (VariantTexts \cup {<<>>})}
    \cup {Document(<<Pre(<<Code(FALSE, <<>>,
        Separated(<<StartLine, LineOf(v), CodeLine>>, Newline))>>)>>) :
        v \in VariantTexts}

Inputs == SimpleBlocks \cup RichBlocks \cup OddBlocks \cup MoreOddBlocks \cup VariantBlocks

\* ------------------------------------------------------------ the system
Init ==
    /\ tree \in Inputs
    /\ prev = tree
    /\ calls = 0

\* the content pipeline runs the transformer on the tree, in place
Annotate ==
    /\ calls < MaxCalls
    /\ prev' = tree
    /\ tree' = rehypeSpotlight(tree)
    /\ calls' = calls + 1

Next == Annotate

Spec == Init /\ [][Next]_vars

\* ---------------------------------------------------- reading the trees
\* prev is the tree a call started from and tree the tree it left; a node
\* after the call is matched with the node before the call by its identity.
TypeOK == calls \in 0..MaxCalls

Called == calls > 0

IsPre(n) == n.type = "element" /\ n.tagName = "pre"

\* the place of the first child of a pre with tag name code, 0 when none
CodePos(pre) ==
    LET codes == {k \in 1..Len(pre.children) : pre.children[k].tagName = "code"}
    IN IF codes = {} THEN 0 ELSE CHOOSE k \in codes : \A j \in codes : k <= j

\* the pre elements of the document, and those with a code element
Pres == {i \in 1..Len(prev.children) : IsPre(prev.children[i])}
Blocks == {i \in Pres : CodePos(prev.children[i]) > 0}

Before(i) == prev.children[i].children[CodePos(prev.children[i])]
After(i) == tree.children[i].children[CodePos(tree.children[i])]

Range(f) == {f[k] : k \in DOMAIN f}
LinesOf(codeEl) == SelectSeq(codeEl.children, IsLineSpan)
Ids(nodes) == [k \in 1..Len(nodes) |-> nodes[k].id]
Survives(i, n) == \E m \in Range(After(i).children) : m.id = n.id
AfterNode(i, n) == CHOOSE m \in Range(After(i).children) : m.id = n.id
BeforeNode(i, m) == CHOOSE n \in Range(Before(i).children) : n.id = m.id
\* the children after the call that were line nodes before it, in order
AfterLines(i) ==
    SelectSeq(After(i).children,
              LAMBDA m : \E n \in Range(LinesOf(Before(i))) : n.id = m.id)

\* the full text of a line holds a marker
HoldsMarker(n) ==
    Includes(getText(n), StartMarker) \/ Includes(getText(n), EndMarker)
IsBlank(n) == Trim(getText(n)) = <<>>
IsMarkerOnlyLine(n) == Trim(getText(n)) \in {StartMarker, EndMarker}

RECURSIVE TextValues(_)
\* the values of the Text nodes at or below a node
TextValues(n) ==
    IF n.type = "text" THEN {n.value}
    ELSE UNION {TextValues(n.children[k]) : k \in 1..Len(n.children)}

\* the call put has-spotlights on the code element of block i
Tagged(i) == After(i).className = Append(Before(i).className, "has-spotlights")

\* the child list without a blank last line and the "\n" Text right before it
WithoutTrailingBlank(children) ==
    LET lines == {k \in 1..Len(children) : IsLineSpan(children[k])}
    IN IF lines = {} THEN children
       ELSE LET last == CHOOSE k \in lines : \A j \in lines : j <= k
                sepBefore == /\ last > 1
                             /\ children[last - 1].type = "text"
                             /\ children[last - 1].value = Newline
                gone == IF ~IsBlank(children[last]) THEN {}
                        ELSE IF sepBefore THEN {last - 1, last} ELSE {last}
            IN SelectSeq(children, LAMBDA n : \A k \in gone : children[k].id # n.id)

\* ---------------------------------------------------------------- claims

\* C1 (fails on the code): after annotate no Text value at or below a line
\* that is still a child of a code element contains "// spotlight-start"
\* or "// spotlight-end".
C1_MarkerRemoval ==
    Called =>
        \A i \in Blocks : \A n \in Range(LinesOf(After(i))) : \A v \in TextValues(n) :
            ~Includes(v, StartMarker) /\ ~Includes(v, EndMarker)

\* C2 as stated (fails on the code): every line that survives in a code
\* element tagged has-spotlights carries exactly one of spotlight and dim.
C2_ExactlyOneOnEveryLine ==
    Called =>
        \A i \in Blocks : HasToken(After(i).className, "has-spotlights") =>
            \A n \in Range(AfterLines(i)) :
                HasToken(n.className, "spotlight") # HasToken(n.className, "dim")

\* C2 amended: in a code element that the call tags has-spotlights, every
\* surviving line whose text held no marker gets exactly one of spotlight
\* and dim appended to its class list, and every surviving line whose text
\* held a marker (a marker-inline line) gets neither; marker-only lines are
\* absent.
C2_ExactlyOneOnPlainLines ==
    Called =>
        \A i \in Blocks : Tagged(i) =>
            /\ \A n \in Range(LinesOf(Before(i))) :
                  IsMarkerOnlyLine(n) => ~Survives(i, n)
            /\ \A m \in Range(AfterLines(i)) :
                  LET n == BeforeNode(i, m)
                  IN IF HoldsMarker(n)
                     THEN m.className = n.className
                     ELSE \/ m.className = Append(n.className, "spotlight")
                          \/ m.className = Append(n.className, "dim")

\* a tagged block in which a plain line and a marker-inline line survive
C2_Witness ==
    /\ calls = 1
    /\ \E i \in Blocks :
          /\ Tagged(i)
          /\ \E m \in Range(AfterLines(i)) : HoldsMarker(BeforeNode(i, m))
          /\ \E m \in Range(AfterLines(i)) :
                ~HoldsMarker(BeforeNode(i, m)) /\ HasToken(m.className, "spotlight")
          /\ \E m \in Range(AfterLines(i)) :
                ~HoldsMarker(BeforeNode(i, m)) /\ HasToken(m.className, "dim")

\* C3 as stated (fails on the code): a block in which no line holds a
\* marker keeps its code element exactly as it was.
C3_NoMarkerUnchanged ==
    Called =>
        \A i \in Blocks :
            (\A n \in Range(LinesOf(Before(i))) : ~HoldsMarker(n)) => After(i) = Before(i)

\* C3 amended: a block in which no line holds a marker keeps the class list
\* of its code element, every line's class list and content, and its child
\* list, except that a blank last line and the "\n" Text node right before
\* it are removed from the child list.
C3_NoMarkerOnlyCleanup ==
    Called =>
        \A i \in Blocks :
            (\A n \in Range(LinesOf(Before(i))) : ~HoldsMarker(n)) =>
                After(i) = [Before(i) EXCEPT !.children = WithoutTrailingBlank(@)]

\* a marker-free block with plain lines went through a call
C3_Witness ==
    /\ calls = 1
    /\ \E i \in Blocks :
          /\ \A n \in Range(LinesOf(Before(i))) : ~HoldsMarker(n)
          /\ Len(LinesOf(Before(i))) >= 2
          /\ ~IsBlank(Before(i).children[Len(Before(i).children)])
          /\ After(i) = Before(i)

\* the line spans of block i before the call, in document order
L(i) == LinesOf(Before(i))

\* the pass over the lines of block i runs
PassRuns(i) == hasSpotlights(afterCleanup(Before(i)).kids, lineSpans(Before(i)))

\* the class a plain line gets from the marker-only lines before it
ExpectedClass(i, k) ==
    LET ms == {j \in 1..(k - 1) : IsMarkerOnlyLine(L(i)[j])}
    IN IF ms = {} THEN "dim"
       ELSE LET j == CHOOSE a \in ms : \A b \in ms : b <= a
            IN IF Trim(getText(L(i)[j])) = StartMarker THEN "spotlight" ELSE "dim"

\* C4 (fails on the code): in a block whose markers all sit on marker-only
\* lines, every marker-only line is removed, the code element gets
\* has-spotlights, and every other surviving line gets spotlight when the
\* nearest marker-only line before it is a start marker and dim otherwise.
C4_ToggleCorrectness ==
    Called =>
        \A i \in Blocks :
            ( /\ \E k \in 1..Len(L(i)) : HoldsMarker(L(i)[k])
              /\ \A k \in 1..Len(L(i)) : HoldsMarker(L(i)[k]) => IsMarkerOnlyLine(L(i)[k]) )
            => /\ Tagged(i)
               /\ \A k \in 1..Len(L(i)) :
                     IF IsMarkerOnlyLine(L(i)[k])
                     THEN ~Survives(i, L(i)[k])
                     ELSE Survives(i, L(i)[k]) =>
                            AfterNode(i, L(i)[k]).className =
                                Append(L(i)[k].className, ExpectedClass(i, k))

\* the place of the last line span in a child list, 0 when there is none
LastLinePos(children) ==
    LET lines == {k \in 1..Len(children) : IsLineSpan(children[k])}
    IN IF lines = {} THEN 0 ELSE CHOOSE k \in lines : \A j \in lines : j <= k

IsNewlineText(n) == n.type = "text" /\ n.value = Newline

\* C5: when the last line node of a code element has blank full text, the
\* call removes it from the child list, and removes the sibling right before
\* it as well when that sibling is a Text node holding exactly one newline;
\* this holds for blocks with markers and for blocks without.
C5_TrailingBlankRemoved ==
    Called =>
        \A i \in Blocks :
            LET ch == Before(i).children
                last == LastLinePos(ch)
            IN (last > 0 /\ IsBlank(ch[last])) =>
                  /\ ~Survives(i, ch[last])
                  /\ (last > 1 /\ IsNewlineText(ch[last - 1])) => ~Survives(i, ch[last - 1])
                  /\ (last > 1 /\ ch[last - 1].type = "text" /\ ~IsNewlineText(ch[last - 1]))
                        => Survives(i, ch[last - 1])

\* a document with a marker block and a marker-free block, each of which
\* lost its blank last line and the newline before it
C5_Witness ==
    /\ calls = 1
    /\ \E i, j \in Blocks :
          /\ Tagged(i) /\ ~Tagged(j)
          /\ \A b \in {i, j} :
                LET ch == Before(b).children
                    last == LastLinePos(ch)
                IN /\ last > 1 /\ IsBlank(ch[last]) /\ IsNewlineText(ch[last - 1])
                   /\ Len(After(b).children) < Len(ch)
                   /\ ~Survives(b, ch[last]) /\ ~Survives(b, ch[last - 1])

\* the line is blank and the pass reaches it with isSpotlighting true
BlankInSpotlight(i, k) ==
    /\ PassRuns(i)
    /\ IsBlank(L(i)[k])
    /\ passState(Before(i), k - 1).isSpotlighting

\* the line is kept, holds the placeholder and got the class spotlight
KeptAsPlaceholder(i, n) ==
    /\ Survives(i, n)
    /\ AfterNode(i, n).children = <<Text(NBSP, 0)>>
    /\ AfterNode(i, n).className = Append(n.className, "spotlight")

\* C6 as stated (fails on the code): a blank line that the pass reaches with
\* spotlighting true stays in the output, holds the single placeholder
\* character and carries spotlight.
C6_BlankSpotlightKept ==
    Called =>
        \A i \in Blocks : \A k \in 1..Len(L(i)) :
            BlankInSpotlight(i, k) => KeptAsPlaceholder(i, L(i)[k])

\* C6 amended: a blank line that the pass reaches with spotlighting true and
\* that is not the last line node of its block stays in the output, holds the
\* single placeholder character and carries spotlight; as the last line node
\* it is removed by the trailing blank line cleanup.
C6_BlankSpotlightKeptUnlessLast ==
    Called =>
        \A i \in Blocks : \A k \in 1..Len(L(i)) :
            BlankInSpotlight(i, k) =>
                IF k < Len(L(i)) THEN KeptAsPlaceholder(i, L(i)[k])
                ELSE ~Survives(i, L(i)[k])

\* a blank line inside a region was kept as a placeholder
C6_Witness ==
    /\ calls = 1
    /\ \E i \in Blocks : \E k \in 1..Len(L(i)) :
          /\ BlankInSpotlight(i, k)
          /\ k < Len(L(i))
          /\ getText(AfterNode(i, L(i)[k])) = NBSP
          /\ HasToken(AfterNode(i, L(i)[k]).className, "spotlight")

\* the text of a line is code followed by a start marker and nothing else
EndsWithStart(n) ==
    LET t == getText(n)
    IN /\ Len(t) > Len(StartMarker)
       /\ SubSeq(t, Len(t) - Len(StartMarker) + 1, Len(t)) = StartMarker
\* the code part of such a line
CodePart(n) == SubSeq(getText(n), 1, Len(getText(n)) - Len(StartMarker))
CodeThenStart(n) ==
    /\ EndsWithStart(n)
    /\ Trim(CodePart(n)) # <<>>
    /\ ~Includes(CodePart(n), StartMarker)
    /\ ~Includes(CodePart(n), EndMarker)

\* a string without the whitespace at its end
TrimEnd(s) ==
    LET keep == {k \in 1..Len(s) : ~IsSpace(s[k])}
    IN IF keep = {} THEN <<>>
       ELSE SubSeq(s, 1, CHOOSE k \in keep : \A j \in keep : j <= k)

RECURSIVE SameShape(_, _)
\* two subtrees differ at most in the values of their Text nodes
SameShape(a, b) ==
    /\ a.type = b.type /\ a.tagName = b.tagName
    /\ a.hasClassName = b.hasClassName /\ a.className = b.className
    /\ Len(a.children) = Len(b.children)
    /\ \A k \in 1..Len(a.children) : SameShape(a.children[k], b.children[k])

C8_DetectionOnFullText ==
    Called =>
        \A i \in Blocks :
            Tagged(i) <=> \E k \in 1..Len(L(i)) : HoldsMarker(L(i)[k])

\* C9: the call has a result on every tree (evaluating it meets no undefined
\* access), and it leaves a pre element with no code child and a pre element
\* whose code element has no line node exactly as they were.
C9_MissingStructureNoOp ==
    /\ rehypeSpotlight(tree).type = "root"
    /\ Called =>
          \A i \in Pres :
              (CodePos(prev.children[i]) = 0 \/ L(i) = <<>>)
                  => tree.children[i] = prev.children[i]

\* a call went over a pre without code child and over a code element whose
\* children are no line nodes
C9_Witness ==
    /\ calls = 1
    /\ \E i \in Pres : CodePos(prev.children[i]) = 0 /\ tree.children[i] = prev.children[i]
    /\ \E i \in Blocks : L(i) = <<>> /\ Before(i).children # <<>> /\ After(i) = Before(i)

\* C10: the line nodes of a code element after the call are, in the same
\* order, line nodes it had before the call, none of them twice.
C10_LineOrderPreserved ==
    Called =>
        \A i \in Blocks :
            LET a == Ids(AfterLines(i))
                b == Ids(L(i))
            IN /\ a = SelectSeq(b, LAMBDA x : x \in Range(a))
               /\ Cardinality(Range(a)) = Len(a)

\* a call removed lines from a block and left at least three, in order
C10_Witness ==
    /\ calls = 1
    /\ \E i \in Blocks :
          /\ Len(AfterLines(i)) >= 3
          /\ Len(AfterLines(i)) < Len(L(i))

\* C11: the call changes only the first code child of a pre element and the
\* nodes below it; every other node of the tree (nodes outside any pre, the
\* pre itself and its other children, code elements that are no child of a
\* pre) is after the call what it was before.
C11_FrameOutsideCode ==
    Called =>
        tree = [prev EXCEPT !.children =
                  [i \in 1..Len(prev.children) |->
                      IF i \in Blocks
                      THEN [prev.children[i] EXCEPT
                              !.children[CodePos(prev.children[i])] = After(i)]
                      ELSE prev.children[i]]]

\* a call changed the code element of a pre that has other children, in a
\* document with an element outside any pre that holds marker text
C11_Witness ==
    /\ calls = 1
    /\ \E i \in Blocks :
          /\ After(i) # Before(i)
          /\ Len(prev.children[i].children) > 1
    /\ \E k \in 1..Len(prev.children) :
          /\ ~IsPre(prev.children[k])
          /\ \E v \in TextValues(prev.children[k]) : Includes(v, StartMarker)

\* the code element of block i as a call leaves it when the block is the
\* only content of the document
Alone(i) ==
    LET t == rehypeSpotlight(Document(<<Pre(<<Before(i)>>)>>))
    IN [t.children[1].children[1] EXCEPT !.id = Before(i).id]

\* C12: the pass over a block starts with spotlighting false whatever was
\* processed before: the result for a block is the result the block gets
\* alone in a document, and a line gets spotlight only when an earlier line
\* of the same block holds a start marker.
C12_StateScopedToBlock ==
    Called =>
        \A i \in Blocks :
            /\ After(i) = Alone(i)
            /\ \A k \in 1..Len(L(i)) :
                  ( /\ Survives(i, L(i)[k])
                    /\ AfterNode(i, L(i)[k]).className = Append(L(i)[k].className, "spotlight") )
                  => \E j \in 1..(k - 1) : Includes(getText(L(i)[j]), StartMarker)

\* a block left its region open and the first line of the next block, which
\* precedes that block's own start marker, came out dim
C12_Witness ==
    /\ calls = 1
    /\ \E i, j \in Blocks :
          /\ i < j
          /\ \E k \in 1..Len(L(i)) : IsMarkerOnlyLine(L(i)[k])
          /\ passState(Before(i), Len(L(i))).isSpotlighting
          /\ Tagged(j)
          /\ ~HoldsMarker(L(j)[1])
          /\ AfterNode(j, L(j)[1]).className = Append(L(j)[1].className, "dim")

\* the places in the child list of block i, before the call, of the
\* marker-only lines and of the "\n" Text node right after each of them
MarkerOnlyPlaces(i) ==
    LET c == Before(i).children
        ms == {k \in 1..Len(c) : IsLineSpan(c[k]) /\ IsMarkerOnlyLine(c[k])}
    IN ms \cup {k + 1 : k \in {j \in ms : /\ j < Len(c)
                                          /\ c[j + 1].type = "text"
                                          /\ c[j + 1].value = Newline}}

\* C13 (fails on the code): a marker-only line is absent after the call and
\* the "\n" Text node right after it is removed with it; apart from the
\* trailing blank line cleanup no other child leaves the list.
C13_MarkerOnlyRemoved ==
    Called =>
        \A i \in Blocks :
            LET c == Before(i).children
                kept == SelectSeq(WithoutTrailingBlank(c),
                                  LAMBDA n : \A k \in MarkerOnlyPlaces(i) : c[k].id # n.id)
            IN Ids(After(i).children) = Ids(kept)

IsStartLine(n) == Includes(getText(n), StartMarker) /\ ~Includes(getText(n), EndMarker)
IsEndLine(n) == Includes(getText(n), EndMarker) /\ ~Includes(getText(n), StartMarker)

\* the place of the last line among the first k of block i that holds a
\* marker, 0 when none does
LastMarkerLine(i, k) ==
    LET ms == {j \in 1..k : HoldsMarker(L(i)[j])}
    IN IF ms = {} THEN 0 ELSE CHOOSE a \in ms : \A b \in ms : b <= a

\* C14: in a block whose pass runs, spotlighting is false before the first
\* marker line, true after a line whose marker is a start and false after a
\* line whose marker is an end, however many starts or ends came before;
\* a plain line that stays in the output gets spotlight or dim by that value.
C14_OneBoolean ==
    Called =>
        \A i \in Blocks : PassRuns(i) =>
            \A k \in 0..Len(L(i)) :
                LET j == LastMarkerLine(i, k)
                    known == j = 0 \/ IsStartLine(L(i)[j]) \/ IsEndLine(L(i)[j])
                    on == j > 0 /\ IsStartLine(L(i)[j])
                IN known =>
                     /\ passState(Before(i), k).isSpotlighting = on
                     /\ ( /\ k < Len(L(i))
                          /\ ~HoldsMarker(L(i)[k + 1])
                          /\ Survives(i, L(i)[k + 1]) )
                        => AfterNode(i, L(i)[k + 1]).className =
                             Append(L(i)[k + 1].className, IF on THEN "spotlight" ELSE "dim")

\* two starts with no end between them were closed by one end, and the plain
\* line after that end came out dim
C14_Witness ==
    /\ calls = 1
    /\ \E i \in Blocks : \E a, b, c, k \in 1..Len(L(i)) :
          /\ a < b /\ b < c /\ c < k
          /\ IsStartLine(L(i)[a]) /\ IsStartLine(L(i)[b]) /\ IsEndLine(L(i)[c])
          /\ \A j \in (a + 1)..(k - 1) : IsEndLine(L(i)[j]) => j = c
          /\ ~HoldsMarker(L(i)[k])
          /\ Survives(i, L(i)[k])
          /\ HasToken(AfterNode(i, L(i)[k]).className, "dim")

\* the line holds a marker together with other text
IsInlineMarkerLine(n) == HoldsMarker(n) /\ ~IsMarkerOnlyLine(n)

\* the plain line after line k of block i, when there is one in the output,
\* got the class that goes with the value on
NextPlainGets(i, k, on) ==
    ( /\ k < Len(L(i))
      /\ ~HoldsMarker(L(i)[k + 1])
      /\ Survives(i, L(i)[k + 1]) )
    => AfterNode(i, L(i)[k + 1]).className =
         Append(L(i)[k + 1].className, IF on THEN "spotlight" ELSE "dim")

\* C15 as stated (fails on the code): a line holding a start marker with
\* other text sets spotlighting to true, a line holding an end marker with
\* other text sets it to false, and the line itself gets no class.
C15_InlineMarkersToggle ==
    Called =>
        \A i \in Blocks : \A k \in 1..Len(L(i)) : IsInlineMarkerLine(L(i)[k]) =>
            /\ Survives(i, L(i)[k])
            /\ AfterNode(i, L(i)[k]).className = L(i)[k].className
            /\ PassRuns(i) =>
                  /\ Includes(getText(L(i)[k]), StartMarker) =>
                        /\ passState(Before(i), k).isSpotlighting
                        /\ NextPlainGets(i, k, TRUE)
                  /\ Includes(getText(L(i)[k]), EndMarker) =>
                        /\ ~passState(Before(i), k).isSpotlighting
                        /\ NextPlainGets(i, k, FALSE)

\* C15 amended: a line holding a start marker with other text sets
\* spotlighting to true, also when it holds an end marker too; a line
\* holding an end marker and no start marker, with other text, sets it to
\* false; in both cases the line stays in the output with the class list it
\* had, inside an open region as well.
C15_InlineStartWins ==
    Called =>
        \A i \in Blocks : \A k \in 1..Len(L(i)) : IsInlineMarkerLine(L(i)[k]) =>
            /\ Survives(i, L(i)[k])
            /\ AfterNode(i, L(i)[k]).className = L(i)[k].className
            /\ PassRuns(i) =>
                  /\ Includes(getText(L(i)[k]), StartMarker) =>
                        /\ passState(Before(i), k).isSpotlighting
                        /\ NextPlainGets(i, k, TRUE)
                  /\ IsEndLine(L(i)[k]) =>
                        /\ ~passState(Before(i), k).isSpotlighting
                        /\ NextPlainGets(i, k, FALSE)

\* inside an open region a line with code and an end marker kept its class
\* list and the plain line after it came out dim; in the same block a line
\* with code and a start marker opened the region
C15_Witness ==
    /\ calls = 1
    /\ \E i \in Blocks : \E a, k \in 1..Len(L(i)) :
          /\ PassRuns(i)
          /\ a < k /\ k < Len(L(i))
          /\ IsInlineMarkerLine(L(i)[a]) /\ IsStartLine(L(i)[a])
          /\ IsInlineMarkerLine(L(i)[k]) /\ IsEndLine(L(i)[k])
          /\ passState(Before(i), k - 1).isSpotlighting
          /\ AfterNode(i, L(i)[k]).className = <<"line">>
          /\ HasToken(AfterNode(i, L(i)[k + 1]).className, "dim")

\* C16 (fails on the code): a line that is not marker-only and whose text is
\* blank once its markers are stripped is absent after the call unless it
\* was tagged spotlight.
C16_EmptiedLinesDeleted ==
    Called =>
        \A i \in Blocks : \A n \in Range(L(i)) :
            (IsInlineMarkerLine(n) /\ Survives(i, n)) =>
                \/ ~IsBlank(AfterNode(i, n))
                \/ AfterNode(i, n).className = Append(n.className, "spotlight")

RECURSIVE Skeleton(_)
\* a subtree with the values of its Text nodes blanked out
Skeleton(n) ==
    [n EXCEPT !.value = <<>>,
              !.children = [k \in 1..Len(n.children) |-> Skeleton(n.children[k])]]

\* the nodes below line m are the nodes below line n, in the same order, and
\* differ at most in the values of Text nodes
SameBelow(n, m) ==
    [k \in 1..Len(m.children) |-> Skeleton(m.children[k])]
        = [k \in 1..Len(n.children) |-> Skeleton(n.children[k])]

OtherPlaces(i) ==
    {k \in 1..Len(Before(i).children) : ~IsLineSpan(Before(i).children[k])}

\* the child at place k stood next to a line node that the call removed
NextToRemovedLine(i, k) ==
    LET c == Before(i).children
    IN \E j \in {k - 1, k + 1} \cap (1..Len(c)) :
          IsLineSpan(c[j]) /\ ~Survives(i, c[j])

LaterCodes(i) ==
    {k \in 1..Len(prev.children[i].children) :
        /\ k > CodePos(prev.children[i])
        /\ prev.children[i].children[k].tagName = "code"}

\* C19: of the code children of a pre element the call processes the first
\* only: it is the one that gets has-spotlights when the pass runs, and
\* every later code child is after the call the node it was before, marker
\* text included.
C19_FirstCodeOnly ==
    Called =>
        \A i \in Blocks :
            /\ Len(tree.children[i].children) = Len(prev.children[i].children)
            /\ CodePos(tree.children[i]) = CodePos(prev.children[i])
            /\ PassRuns(i) => Tagged(i)
            /\ \A k \in LaterCodes(i) :
                  tree.children[i].children[k] = prev.children[i].children[k]

\* a pre element with two code children that both hold a marker-only line:
\* the first was tagged and lost the line, the second still has it
C19_Witness ==
    /\ calls = 1
    /\ \E i \in Blocks : \E k \in LaterCodes(i) :
          /\ Tagged(i)
          /\ \E n \in Range(L(i)) : IsMarkerOnlyLine(n) /\ ~Survives(i, n)
          /\ \E n \in Range(LinesOf(tree.children[i].children[k])) : IsMarkerOnlyLine(n)
          /\ ~HasToken(tree.children[i].children[k].className, "has-spotlights")

\* the text of the line holds a comment that resembles a marker and holds
\* neither marker
HoldsVariantOnly(n) ==
    /\ \E v \in VariantTexts : Includes(getText(n), v)
    /\ ~HoldsMarker(n)

\* C20: a line that holds only a variant of a marker is handled as a plain
\* line: its text is never rewritten and it is never removed as a marker
\* line; a block in which lines hold variants and no line holds a marker
\* gets no has-spotlights, and its lines get no class.
C20_MarkerSyntaxExact ==
    Called =>
        \A i \in Blocks :
            /\ \A n \in Range(L(i)) : HoldsVariantOnly(n) =>
                  /\ Survives(i, n)
                  /\ AfterNode(i, n).children = n.children
                  /\ PassRuns(i) =>
                        \/ AfterNode(i, n).className = Append(n.className, "spotlight")
                        \/ AfterNode(i, n).className = Append(n.className, "dim")
            /\ ( /\ \E n \in Range(L(i)) : HoldsVariantOnly(n)
                 /\ \A n \in Range(L(i)) : ~HoldsMarker(n) )
               => /\ ~PassRuns(i)
                  /\ After(i).hasClassName = Before(i).hasClassName
                  /\ After(i).className = Before(i).className
                  /\ \A m \in Range(After(i).children) : m = BeforeNode(i, m)

\* a block whose comments are variants only went through a call untouched,
\* for each of the variants
C20_Witness ==
    /\ calls = 1
    /\ \E i \in Blocks :
          /\ \E n, m \in Range(L(i)) :
                /\ HoldsVariantOnly(n) /\ HoldsVariantOnly(m)
                /\ getText(n) # getText(m)
          /\ \A n \in Range(L(i)) : ~HoldsMarker(n)
          /\ After(i) = Before(i)

\* the child list is line, newline, line, ..., line: line nodes with exactly
\* one newline-only Text node between neighbours and none at either end
WellSeparated(c) ==
    \/ c = <<>>
    \/ /\ Len(c) % 2 = 1
       /\ \A k \in 1..Len(c) :
             IF k % 2 = 1 THEN IsLineSpan(c[k]) ELSE IsNewlineText(c[k])

\* C21 (fails on the code): when the line nodes of a code element are
\* separated by exactly one newline-only Text node each before the call,
\* the surviving line nodes are so separated after it, and no newline-only
\* Text node follows the last of them.
C21_SeparatorsWellFormed ==
    Called =>
        \A i \in Blocks :
            WellSeparated(Before(i).children) => WellSeparated(After(i).children)

\* C22 (fails on the code): a call on a tree that an earlier call has
\* already processed changes nothing.
C22_Idempotence ==
    calls >= 2 => tree = prev

\* line k of block i is the last line node of the block and is blank
IsTrailingBlank(i, k) == k = Len(L(i)) /\ IsBlank(L(i)[k])

Ordinary(i) ==
    /\ L(i) # <<>> => ~IsBlank(L(i)[Len(L(i))])
    /\ \A k \in 1..Len(L(i)) : ~(BlankInSpotlight(i, k) /\ ~HoldsMarker(L(i)[k]))

\* C25: on an ordinary block the revision of part_000 gives, from the tree
\* before the call, the pre element that the revision of part_001 gave:
\* same child lists, same class lists, same Text values.
C25_RevisionsAgree ==
    Called =>
        \A i \in Blocks :
            Ordinary(i) => tree.children[i] = rehypeSpotlight_000(prev).children[i]

\* an ordinary block with marker-only lines and plain lines of both
\* classes, changed by the call
C25_Witness ==
    /\ calls = 1
    /\ \E i \in Blocks :
          /\ Ordinary(i)
          /\ Tagged(i)
          /\ After(i) = processCode_000(Before(i))
          /\ \E n \in Range(L(i)) : IsMarkerOnlyLine(n) /\ ~Survives(i, n)
          /\ \E m \in Range(AfterLines(i)) : HasToken(m.className, "spotlight")
          /\ \E m \in Range(AfterLines(i)) : HasToken(m.className, "dim")

\* class list b is class list a, or a with the one token t appended
SameOrAppended(a, b, t) == b = a \/ b = Append(a, t)

\* C26: the class list of a code element after the call is the one it had,
\* or that one with has-spotlights appended; the class list of a line that
\* stays is the one it had, or that one with spotlight or with dim appended;
\* such a line still is a span with the token line.
C26_ClassesOnlyAppended ==
    Called =>
        \A i \in Blocks :
            /\ SameOrAppended(Before(i).className, After(i).className, "has-spotlights")
            /\ \A m \in Range(AfterLines(i)) :
                  /\ \/ SameOrAppended(BeforeNode(i, m).className, m.className, "spotlight")
                     \/ SameOrAppended(BeforeNode(i, m).className, m.className, "dim")
                  /\ IsLineSpan(m)

\* a code element with the class language-ts got has-spotlights after it,
\* and one of its lines got a class after the token line
C26_Witness ==
    /\ calls = 1
    /\ \E i \in Blocks :
          /\ Before(i).className = <<"language-ts">>
          /\ After(i).className = <<"language-ts", "has-spotlights">>
          /\ \E m \in Range(AfterLines(i)) : m.className = <<"line", "spotlight">>
          /\ \E m \in Range(AfterLines(i)) : m.className = <<"line", "dim">>

\* for each place in the child list of block i before the call, whether the
\* child carries shouldRemove when the call is through with the block
FlagsAtEnd(i) ==
    LET kids == IF PassRuns(i) THEN passState(Before(i), Len(L(i))).kids
                ELSE afterCleanup(Before(i)).kids
    IN [k \in 1..Len(kids) |-> kids[k].shouldRemove]

RECURSIVE NoFlagBelow(_)
\* no node at or below n carries shouldRemove
NoFlagBelow(n) ==
    /\ ~n.shouldRemove
    /\ \A k \in 1..Len(n.children) : NoFlagBelow(n.children[k])

\* C27: a child of a code element is gone after the call exactly when the
\* call flagged it; what is flagged is a blank last line, a marker-only line
\* or a Text node holding one newline; and no node of the tree carries the
\* flag after the call.
C27_MarkThenFilterExact ==
    Called =>
        /\ \A i \in Blocks :
              LET c == Before(i).children
                  flags == FlagsAtEnd(i)
                  flagged == {k \in 1..Len(c) : flags[k]}
                  gone == {k \in 1..Len(c) : ~Survives(i, c[k])}
              IN /\ gone = flagged
                 /\ \A k \in flagged :
                       \/ IsNewlineText(c[k])
                       \/ IsLineSpan(c[k]) /\ IsMarkerOnlyLine(c[k])
                       \/ IsLineSpan(c[k]) /\ IsBlank(c[k]) /\ k = LastLinePos(c)
        /\ NoFlagBelow(tree)

\* one call flagged and removed a marker-only line with the newline after
\* it and the blank last line with the newline before it, and kept the rest
C27_Witness ==
    /\ calls = 1
    /\ \E i \in Blocks :
          LET c == Before(i).children
              gone == {k \in 1..Len(c) : ~Survives(i, c[k])}
          IN /\ \E k \in gone : IsLineSpan(c[k]) /\ IsMarkerOnlyLine(c[k])
                                /\ k + 1 \in gone /\ IsNewlineText(c[k + 1])
             /\ \E k \in gone : IsLineSpan(c[k]) /\ IsBlank(c[k])
                                /\ k - 1 \in gone /\ IsNewlineText(c[k - 1])
             /\ \A k \in gone : FlagsAtEnd(i)[k]
             /\ Len(After(i).children) > 0
             /\ NoFlagBelow(After(i))

====
